---------------------------- MODULE Spec2Model ----------------------------
(***************************************************************************)
(* Dev-Events: the Event model's pre('validate') hook (slug assignment,    *)
(* date and time normalization), the POST /api/events handler, the         *)
(* dbConnect connection cache and the Booking model's pre('save') hook.    *)
(*                                                                         *)
(* Strings are sequences of one-character strings, so that the regular     *)
(* expressions and the string functions of the source can be computed      *)
(* character by character.                                                 *)
(***************************************************************************)
EXTENDS Integers, Sequences, FiniteSets, TLC

(***************************************************************************)
(* Bounds of the model.                                                    *)
(***************************************************************************)
NumProcs == 2          \* concurrent POST requests
MaxRequests == 3       \* POST requests over a behaviour
MaxTimeLen == 5        \* length of the time strings given to the normalizer
NumBookers == 1        \* concurrent Booking creations
MaxBookings == 2       \* Booking creations over a behaviour

Procs == 1..NumProcs
Bookers == 1..NumBookers
NULL == "null"

(***************************************************************************)
(* Characters and the JavaScript string functions the source uses.         *)
(***************************************************************************)
UpperChars == <<"A","B","C","D","E","F","G","H","I","J","K","L","M",
                "N","O","P","Q","R","S","T","U","V","W","X","Y","Z">>
LowerChars == <<"a","b","c","d","e","f","g","h","i","j","k","l","m",
                "n","o","p","q","r","s","t","u","v","w","x","y","z">>
DigitChars == <<"0","1","2","3","4","5","6","7","8","9">>

Range(s) == {s[i] : i \in DOMAIN s}

IsDigit(c) == c \in Range(DigitChars)
\* \w of a JavaScript regular expression: [A-Za-z0-9_]
IsWord(c) == c \in Range(UpperChars) \cup Range(LowerChars) \cup Range(DigitChars) \cup {"_"}
\* \s of a JavaScript regular expression (the white space of the model's alphabet)
IsSpace(c) == c \in {" ", "\t", "\n"}

DigitVal(c) == (CHOOSE i \in DOMAIN DigitChars : DigitChars[i] = c) - 1

\* String.prototype.toLowerCase
toLowerCase(s) ==
  [i \in DOMAIN s |->
     IF \E k \in DOMAIN UpperChars : UpperChars[k] = s[i]
     THEN LowerChars[CHOOSE k \in DOMAIN UpperChars : UpperChars[k] = s[i]]
     ELSE s[i]]

RECURSIVE trimStart(_)
trimStart(s) == IF s # <<>> /\ IsSpace(Head(s)) THEN trimStart(Tail(s)) ELSE s

RECURSIVE trimEnd(_)
trimEnd(s) ==
  IF s # <<>> /\ IsSpace(s[Len(s)]) THEN trimEnd(SubSeq(s, 1, Len(s) - 1)) ELSE s

\* String.prototype.trim
trim(s) == trimEnd(trimStart(s))

\* parseInt(s, 10) of a string of decimal digits
RECURSIVE parseInt(_)
parseInt(s) ==
  IF s = <<>> THEN 0
  ELSE 10 * parseInt(SubSeq(s, 1, Len(s) - 1)) + DigitVal(s[Len(s)])

\* the decimal digits of a natural number, as `${counter}` prints it
RECURSIVE NumToString(_)
NumToString(n) ==
  IF n < 10 THEN <<DigitChars[n + 1]>>
  ELSE NumToString(n \div 10) \o <<DigitChars[(n % 10) + 1]>>

\* a padStart that pads nothing
padStart2_NoPad(s) == s

\* String.prototype.padStart(2, '0')
padStart2(s) == IF Len(s) >= 2 THEN s ELSE IF Len(s) = 1 THEN <<"0">> \o s ELSE <<"0", "0">>

\* the index of the first ':' of s, 0 when there is none
FirstColon(s) ==
  IF \E i \in DOMAIN s : s[i] = ":"
  THEN CHOOSE i \in DOMAIN s : s[i] = ":" /\ \A j \in 1..(i - 1) : s[j] # ":"
  ELSE 0

(***************************************************************************)
(* slugify, the six steps of the arrow function.                           *)
(***************************************************************************)
\* .replace(/[^\w\s-]/g, '')
StripSpecial(s) == SelectSeq(s, LAMBDA c : IsWord(c) \/ IsSpace(c) \/ c = "-")

\* .replace(/\s+/g, '-'): every maximal run of white space becomes one hyphen
RECURSIVE SpacesToHyphen(_)
SpacesToHyphen(s) ==
  IF s = <<>> THEN <<>>
  ELSE IF IsSpace(Head(s)) THEN <<"-">> \o SpacesToHyphen(trimStart(s))
  ELSE <<Head(s)>> \o SpacesToHyphen(Tail(s))

\* .replace(/-+/g, '-'): every run of hyphens becomes one hyphen
RECURSIVE CollapseHyphens(_)
CollapseHyphens(s) ==
  IF Len(s) < 2 THEN s
  ELSE IF s[1] = "-" /\ s[2] = "-" THEN CollapseHyphens(Tail(s))
  ELSE <<Head(s)>> \o CollapseHyphens(Tail(s))

\* .replace(/^-|-$/g, ''): one leading and one trailing hyphen are removed
StripEdgeHyphens(s) ==
  LET a == IF s # <<>> /\ Head(s) = "-" THEN Tail(s) ELSE s
  IN  IF a # <<>> /\ a[Len(a)] = "-" THEN SubSeq(a, 1, Len(a) - 1) ELSE a

slugify(str) ==
  StripEdgeHyphens(CollapseHyphens(SpacesToHyphen(StripSpecial(trim(toLowerCase(str))))))

(***************************************************************************)
(* Time normalization.                                                     *)
(***************************************************************************)
\* the regular expression with 2[0-9] for 2[0-3]
timeRegexTest_AnyTwenty(s) ==
  /\ Len(s) \in {4, 5}
  /\ LET h == SubSeq(s, 1, Len(s) - 3)
     IN  \/ Len(h) = 1 /\ IsDigit(h[1])
         \/ Len(h) = 2 /\ h[1] \in {"0", "1", "2"} /\ IsDigit(h[2])
  /\ s[Len(s) - 2] = ":"
  /\ s[Len(s) - 1] \in {"0", "1", "2", "3", "4", "5"}
  /\ IsDigit(s[Len(s)])

\* /^([0-1]?[0-9]|2[0-3]):[0-5][0-9]$/.test(s)
timeRegexTest(s) ==
  /\ Len(s) \in {4, 5}
  /\ LET h == SubSeq(s, 1, Len(s) - 3)
     IN  \/ Len(h) = 1 /\ IsDigit(h[1])
         \/ Len(h) = 2 /\ h[1] \in {"0", "1"} /\ IsDigit(h[2])
         \/ Len(h) = 2 /\ h[1] = "2" /\ h[2] \in {"0", "1", "2", "3"}
  /\ s[Len(s) - 2] = ":"
  /\ s[Len(s) - 1] \in {"0", "1", "2", "3", "4", "5"}
  /\ IsDigit(s[Len(s)])

\* the time step of the hook: [ok |-> accepted, value |-> the stored time]
NormalizeTime(time) ==
  IF ~timeRegexTest(time)
  THEN [ok |-> FALSE, value |-> time, error |-> "Time must be in HH:MM format"]
  ELSE LET c == FirstColon(time)
           hours == SubSeq(time, 1, c - 1)
           minutes == SubSeq(time, c + 1, Len(time))
       IN  [ok |-> TRUE, value |-> padStart2(hours) \o <<":">> \o minutes, error |-> ""]

(***************************************************************************)
(* Date normalization: the regular expression, Date.UTC and the UTC        *)
(* getters, computed in days as ECMAScript defines them.                   *)
(***************************************************************************)
\* /^(\d{4})-(0[1-9]|1[0-2])-(0[1-9]|[12]\d|3[01])$/
dateRegexMatch(s) ==
  /\ Len(s) = 10
  /\ \A i \in {1, 2, 3, 4} : IsDigit(s[i])
  /\ s[5] = "-"
  /\ \/ s[6] = "0" /\ IsDigit(s[7]) /\ s[7] # "0"
     \/ s[6] = "1" /\ s[7] \in {"0", "1", "2"}
  /\ s[8] = "-"
  /\ \/ s[9] = "0" /\ IsDigit(s[10]) /\ s[10] # "0"
     \/ s[9] \in {"1", "2"} /\ IsDigit(s[10])
     \/ s[9] = "3" /\ s[10] \in {"0", "1"}

\* ECMAScript DayFromYear
DayFromYear(y) ==
  365 * (y - 1970) + ((y - 1969) \div 4) - ((y - 1901) \div 100) + ((y - 1601) \div 400)

\* ECMAScript DaysInYear
DaysInYear(y) ==
  IF y % 4 # 0 THEN 365 ELSE IF y % 100 # 0 THEN 366 ELSE IF y % 400 # 0 THEN 365 ELSE 366

\* ECMAScript YearFromTime, on a day number
YearFromDay(d) ==
  LET a == 1970 + (d \div 365)
      b == 1970 + (d \div 366)
      lo == (IF a < b THEN a ELSE b) - 1
      hi == (IF a < b THEN b ELSE a) + 1
  IN  CHOOSE y \in lo..hi : DayFromYear(y) <= d /\ d < DayFromYear(y + 1)

\* the day within the year at which month m (0..11) starts, ECMAScript MonthFromTime
MonthStart(m, leap) ==
  IF m = 0 THEN 0 ELSE IF m = 1 THEN 31
  ELSE <<59, 90, 120, 151, 181, 212, 243, 273, 304, 334, 365>>[m - 1] + leap

\* ECMAScript MonthFromTime, on a day number
MonthFromDay(d) ==
  LET y == YearFromDay(d)
      leap == IF DaysInYear(y) = 366 THEN 1 ELSE 0
      w == d - DayFromYear(y)
  IN  CHOOSE m \in 0..11 : MonthStart(m, leap) <= w /\ w < MonthStart(m + 1, leap)

\* ECMAScript DateFromTime, on a day number
DateFromDay(d) ==
  LET y == YearFromDay(d)
      leap == IF DaysInYear(y) = 366 THEN 1 ELSE 0
      w == d - DayFromYear(y)
  IN  w - MonthStart(MonthFromDay(d), leap) + 1

\* Date.UTC(year, month, day) as a day number: years 0..99 mean 1900..1999,
\* MakeDay takes day 1 of the month and adds day - 1
DateUTC(year, month, day) ==
  LET yr == IF 0 <= year /\ year <= 99 THEN 1900 + year ELSE year
      ym == yr + (month \div 12)
      mn == month % 12
      leap == IF DaysInYear(ym) = 366 THEN 1 ELSE 0
  IN  DayFromYear(ym) + MonthStart(mn, leap) + day - 1

\* the date step of the hook
NormalizeDate(date) ==
  IF ~dateRegexMatch(date)
  THEN [ok |-> FALSE, value |-> date, error |-> "Invalid date format - expected YYYY-MM-DD"]
  ELSE LET year == parseInt(SubSeq(date, 1, 4))
           month == parseInt(SubSeq(date, 6, 7))
           day == parseInt(SubSeq(date, 9, 10))
           parsedDate == DateUTC(year, month - 1, day)
       IN  IF \/ YearFromDay(parsedDate) # year
              \/ MonthFromDay(parsedDate) # month - 1
              \/ DateFromDay(parsedDate) # day
           THEN [ok |-> FALSE, value |-> date,
                 error |-> "Invalid date format - expected YYYY-MM-DD"]
           ELSE [ok |-> TRUE, value |-> date, error |-> ""]


(***************************************************************************)
(* The form submissions the model posts (route.ts reads them with          *)
(* req.formData()).  agenda and tags arrive as comma-separated strings.    *)
(***************************************************************************)
CloudNextTitle == <<"C","l","o","u","d"," ","N","e","x","t"," ","2","0","2","6","!">>
CloudNextOneTitle == <<"C","l","o","u","d"," ","N","e","x","t"," ","2","0","2","6"," ","1">>
PunctuationTitle == <<" ","?","!">>
GoodDate == <<"2","0","2","6","-","0","3","-","1","0">>
BadDate == <<"2","0","2","3","-","0","2","-","3","0">>
GoodTime == <<"9",":","0","5">>
ShortTime == <<"9",":","5">>
ListInput == <<"a",","," ","b"," ",",",",","c">>
BlankList == <<" ">>

MkForm(title, date, time, agenda, tags) ==
  [title |-> title, date |-> date, time |-> time, agenda |-> agenda, tags |-> tags]

Forms ==
  { MkForm(CloudNextTitle, GoodDate, GoodTime, ListInput, ListInput),
    MkForm(CloudNextTitle, GoodDate, ShortTime, ListInput, ListInput),
    MkForm(CloudNextOneTitle, GoodDate, GoodTime, ListInput, ListInput),
    MkForm(PunctuationTitle, GoodDate, GoodTime, ListInput, ListInput),
    MkForm(CloudNextTitle, BadDate, GoodTime, ListInput, ListInput),
    MkForm(PunctuationTitle, GoodDate, GoodTime, BlankList, ListInput) }

\* value.split(',')
RECURSIVE split(_)
split(s) ==
  IF \E i \in DOMAIN s : s[i] = ","
  THEN LET i == CHOOSE k \in DOMAIN s : s[k] = "," /\ \A j \in 1..(k - 1) : s[j] # ","
       IN  <<SubSeq(s, 1, i - 1)>> \o split(SubSeq(s, i + 1, Len(s)))
  ELSE <<s>>

\* route.ts: the coercion of a comma-separated agenda or tags string
Coerce(value) ==
  LET val == trim(value)
      parts == split(val)
      trimmed == [i \in DOMAIN parts |-> trim(parts[i])]
  IN  IF val # <<>> THEN SelectSeq(trimmed, LAMBDA x : x # <<>>) ELSE <<>>

(***************************************************************************)
(* State.                                                                  *)
(***************************************************************************)
VARIABLES
  MONGODB_URI,   \* the module constant read from process.env when mongodb.ts is evaluated
  cleanupEnv,    \* NODE_ENV === 'test' || CLEANUP_TEST_EVENTS === 'true'
  cached,        \* global.mongoose: [conn, promise]
  attempts,      \* the promises of mongoose.connect, in the order they were created
  jobs,          \* the microtask queue: dbConnect calls and promise reactions
  pc,            \* where each POST request is
  awaiting,      \* the connection promise a request awaits (0: none)
  doc,           \* the Event document a request is creating
  candidate,     \* the slug loop's candidate
  counter,       \* the slug loop's counter
  resp,          \* the response the handler sent last
  events,        \* the Event collection, in insertion order
  requests,      \* number of POST requests so far
  overlapped,    \* history: some request started while another was running
  bookings,      \* the Booking collection, in insertion order
  bpc,           \* where each Booking creation is
  bdoc,          \* the Booking document being saved
  bresp,         \* the outcome of the Booking creation that ended last
  blookup,       \* what the last Event.exists query of the Booking hook did
  bookingCalls,  \* number of Booking creations so far
  normIn,        \* the string given to a normalization step on its own
  normOp,        \* the normalization step applied to it
  normOut        \* its result

eventVars == <<MONGODB_URI, cleanupEnv, cached, attempts, jobs, pc, awaiting, doc,
               candidate, counter, resp, events, requests, overlapped>>
bookingVars == <<bookings, bpc, bdoc, bresp, blookup, bookingCalls>>
normVars == <<normIn, normOp, normOut>>
vars == <<eventVars, bookingVars, normVars>>

URI == "mongodb://localhost/dev-events"
Mongoose == "mongoose"
NoDoc == [id |-> 0, title |-> <<>>, slug |-> <<>>, date |-> <<>>, time |-> <<>>,
          agenda |-> <<>>, tags |-> <<>>]
NoResp == [status |-> 0, error |-> ""]
NoBooking == [eventId |-> 0, email |-> <<>>]
NoResult == [ok |-> FALSE, value |-> <<>>, error |-> ""]
CleanupSlug == <<"c","l","o","u","d","-","n","e","x","t","-","2","0","2","6">>
FallbackSlug == <<"e","v","e","n","t">>

Slugs == {events[i].slug : i \in DOMAIN events}

InitEvents ==
  /\ MONGODB_URI \in {"", URI}
  /\ cleanupEnv \in BOOLEAN
  /\ cached = [conn |-> NULL, promise |-> 0]
  /\ attempts = <<>>
  /\ jobs = <<>>
  /\ pc = [p \in Procs |-> "idle"]
  /\ awaiting = [p \in Procs |-> 0]
  /\ doc = [p \in Procs |-> NoDoc]
  /\ candidate = [p \in Procs |-> <<>>]
  /\ counter = [p \in Procs |-> 0]
  /\ resp = NoResp
  /\ events = <<>>
  /\ requests = 0
  /\ overlapped = FALSE

InitBookings ==
  /\ bookings = <<>>
  /\ bpc = [b \in Bookers |-> "idle"]
  /\ bdoc = [b \in Bookers |-> NoBooking]
  /\ bresp = ""
  /\ blookup = "none"
  /\ bookingCalls = 0

InitNorm ==
  /\ normIn = <<>>
  /\ normOp = "none"
  /\ normOut = NoResult

Init == InitEvents /\ InitBookings /\ InitNorm


(***************************************************************************)
(* The Event model (event.model.ts).                                       *)
(***************************************************************************)
\* a counter that is one ahead
NextCandidate_OneAhead(base, n) == base \o <<"-">> \o NumToString(n + 1)

\* `${base}-${counter}`
NextCandidate(base, n) == base \o <<"-">> \o NumToString(n)

\* let candidate = base || 'event'
FirstCandidate(base) == IF base # <<>> THEN base ELSE FallbackSlug

\* a query that finds every slug
SlugExists_Always(s) == TRUE

\* EventModel.exists({ slug })
SlugExists(slug) == \E i \in DOMAIN events : events[i].slug = slug

\* the schema's setters of the slug path: lowercase, trim
SlugSetter(s) == trim(toLowerCase(s))

\* new Event(form): the title path trims, agenda and tags are arrays
NewDoc(id, f) ==
  [id |-> id, title |-> trim(f.title), slug |-> <<>>, date |-> f.date, time |-> f.time,
   agenda |-> Coerce(f.agenda), tags |-> Coerce(f.tags)]

\* validators that pass every document
SchemaValid_AcceptsAll(d) == TRUE

\* the schema's validators: required title, non-empty agenda and tags
SchemaValid(d) == d.title # <<>> /\ Len(d.agenda) > 0 /\ Len(d.tags) > 0

\* a slug path without unique index
UniqueIndexAdmits_NoIndex(d) == TRUE

\* the unique index of the slug path admits the document
UniqueIndexAdmits(d) == ~SlugExists(d.slug)

\* Event.deleteOne({ slug: 'cloud-next-2026' })
RECURSIVE DeleteOne(_, _)
DeleteOne(coll, slug) ==
  IF coll = <<>> THEN <<>>
  ELSE IF Head(coll).slug = slug THEN Tail(coll)
  ELSE <<Head(coll)>> \o DeleteOne(Tail(coll), slug)

(***************************************************************************)
(* dbConnect (lib/mongodb.ts).                                             *)
(***************************************************************************)
\* no check of MONGODB_URI
MissingUri_Unchecked(uri) == FALSE

\* if (!MONGODB_URI)
MissingUri(uri) == uri = ""

\* a connect on every call that finds no handle
StartsDial_Always(c) == TRUE

\* if (!cached.promise): a new mongoose.connect is started
StartsDial(c) == c.promise = 0

\* a catch block that keeps the rejected promise
ResetOnError_Keeps(c) == c

\* the catch block: cached.promise = null
ResetOnError(c) == [c EXCEPT !.promise = 0]

\* /querySrv|ECONNREFUSED|ENOTFOUND/i.test(error.message)
IsNetworkError(message) == message \in {"querySrv ECONNREFUSED", "getaddrinfo ENOTFOUND"}

\* the error dbConnect throws for a rejected connection promise
ConnectError(message) ==
  IF IsNetworkError(message) THEN "MongoDB connection error: " \o message ELSE message

ConfigError == "Please define the MONGODB_URI environment variable inside .env.local"

DialOutcomes == {"querySrv ECONNREFUSED", "bad auth"}

Pending == {a \in DOMAIN attempts : attempts[a].state = "pending"}

(***************************************************************************)
(* POST /api/events (app/api/events/route.ts).                             *)
(***************************************************************************)
\* the response of the handler; the slot of the request is free again
Respond(p, status, error) ==
  /\ pc' = [pc EXCEPT ![p] = "idle"]
  /\ resp' = [status |-> status, error |-> error]
  /\ doc' = [doc EXCEPT ![p] = NoDoc]
  /\ candidate' = [candidate EXCEPT ![p] = <<>>]
  /\ counter' = [counter EXCEPT ![p] = 0]
  /\ awaiting' = [awaiting EXCEPT ![p] = 0]

\* after dbConnect returned: formData reads the form f, the coercion, then deleteOne
\* or Event.create, whose pre('validate') hook starts the slug loop with its first
\* exists query
AfterConnect(p, f) ==
  LET d == NewDoc(doc[p].id, f)
  IN  /\ doc' = [doc EXCEPT ![p] = d]
      /\ candidate' = [candidate EXCEPT ![p] = FirstCandidate(slugify(d.title))]
      /\ counter' = [counter EXCEPT ![p] = 0]
      /\ awaiting' = [awaiting EXCEPT ![p] = 0]
      /\ pc' = [pc EXCEPT ![p] = IF cleanupEnv THEN "deleteOne" ELSE "exists"]
      /\ UNCHANGED resp

\* a request arrives and takes the first free slot: POST is called, and its dbConnect
\* call is the next job
Arrive(p) ==
  /\ UNCHANGED <<bookingVars, normVars>>
  /\ pc[p] = "idle"
  /\ \A q \in 1..(p - 1) : pc[q] # "idle"
  /\ requests < MaxRequests
  /\ requests' = requests + 1
  /\ overlapped' = (overlapped \/ \E q \in Procs \ {p} : pc[q] # "idle")
  /\ pc' = [pc EXCEPT ![p] = "called"]
  /\ doc' = [doc EXCEPT ![p] = [NoDoc EXCEPT !.id = requests + 1]]
  /\ jobs' = Append(jobs, [kind |-> "call", proc |-> p, attempt |-> 0])
  /\ UNCHANGED <<MONGODB_URI, cleanupEnv, cached, attempts, awaiting, candidate, counter,
                 resp, events>>

\* dbConnect up to its await: the configuration check, the cached handle, the dial
CallDbConnect(p, f) ==
  /\ UNCHANGED <<bookingVars, normVars>>
  /\ jobs # <<>>
  /\ Head(jobs) = [kind |-> "call", proc |-> p, attempt |-> 0]
  /\ UNCHANGED <<MONGODB_URI, cleanupEnv, events, requests, overlapped>>
  /\ IF MissingUri(MONGODB_URI)
     THEN /\ Respond(p, 500, ConfigError)
          /\ jobs' = Tail(jobs)
          /\ UNCHANGED <<cached, attempts>>
     ELSE IF cached.conn # NULL
     THEN /\ AfterConnect(p, f)
          /\ jobs' = Tail(jobs)
          /\ UNCHANGED <<cached, attempts>>
     ELSE LET dial == StartsDial(cached)
              a == IF dial THEN Len(attempts) + 1 ELSE cached.promise
              started == IF dial
                         THEN Append(attempts, [state |-> "pending", reactions |-> <<>>])
                         ELSE attempts
          IN  /\ cached' = [cached EXCEPT !.promise = a]
              /\ awaiting' = [awaiting EXCEPT ![p] = a]
              /\ pc' = [pc EXCEPT ![p] = "awaitConnect"]
              /\ IF started[a].state = "pending"
                 THEN /\ attempts' = [started EXCEPT ![a].reactions = Append(@, p)]
                      /\ jobs' = Tail(jobs)
                 ELSE /\ attempts' = started
                      /\ jobs' = Append(Tail(jobs),
                                        [kind |-> "reaction", proc |-> p, attempt |-> a])
              /\ UNCHANGED <<doc, candidate, counter, resp>>

\* mongoose.connect settles: the reactions of its promise are queued in order
Settle(a, outcome) ==
  /\ UNCHANGED <<bookingVars, normVars>>
  /\ jobs = <<>>
  /\ a \in Pending
  /\ attempts' = [attempts EXCEPT ![a] = [state |-> outcome, reactions |-> <<>>]]
  /\ jobs' = [i \in DOMAIN attempts[a].reactions |->
                [kind |-> "reaction", proc |-> attempts[a].reactions[i], attempt |-> a]]
  /\ UNCHANGED <<MONGODB_URI, cleanupEnv, cached, pc, awaiting, doc, candidate,
                 counter, resp, events, requests, overlapped>>

\* dbConnect after its await: cache the handle, or reset the promise and throw
ResumeDbConnect(p, f) ==
  /\ UNCHANGED <<bookingVars, normVars>>
  /\ jobs # <<>>
  /\ Head(jobs).kind = "reaction"
  /\ Head(jobs).proc = p
  /\ jobs' = Tail(jobs)
  /\ UNCHANGED <<MONGODB_URI, cleanupEnv, attempts, events, requests, overlapped>>
  /\ LET a == Head(jobs).attempt
     IN  IF attempts[a].state = "fulfilled"
         THEN /\ cached' = [cached EXCEPT !.conn = Mongoose]
              /\ AfterConnect(p, f)
         ELSE /\ cached' = ResetOnError(cached)
              /\ Respond(p, 500, ConnectError(attempts[a].state))

\* the test clean-up of the handler, then Event.create
CleanupTestEvent(p) ==
  /\ UNCHANGED <<bookingVars, normVars>>
  /\ jobs = <<>>
  /\ pc[p] = "deleteOne"
  /\ events' = DeleteOne(events, CleanupSlug)
  /\ pc' = [pc EXCEPT ![p] = "exists"]
  /\ UNCHANGED <<MONGODB_URI, cleanupEnv, cached, attempts, jobs, awaiting, doc,
                 candidate, counter, resp, requests, overlapped>>

\* one iteration of the slug loop; when the candidate is free the hook assigns the
\* slug, normalizes date and time, the validators run and the insert is sent
CheckSlug(p) ==
  /\ UNCHANGED <<bookingVars, normVars>>
  /\ jobs = <<>>
  /\ pc[p] = "exists"
  /\ UNCHANGED <<MONGODB_URI, cleanupEnv, cached, attempts, jobs, events, requests,
                 overlapped>>
  /\ IF SlugExists(candidate[p])
     THEN /\ counter' = [counter EXCEPT ![p] = @ + 1]
          /\ candidate' = [candidate EXCEPT
                             ![p] = NextCandidate(slugify(doc[p].title), counter[p] + 1)]
          /\ UNCHANGED <<pc, awaiting, doc, resp>>
     ELSE LET date == NormalizeDate(doc[p].date)
              time == NormalizeTime(doc[p].time)
              d == [doc[p] EXCEPT !.slug = SlugSetter(candidate[p]),
                                  !.date = date.value, !.time = time.value]
          IN  IF ~date.ok THEN Respond(p, 500, date.error)
              ELSE IF ~time.ok THEN Respond(p, 500, time.error)
              ELSE IF ~SchemaValid(d) THEN Respond(p, 400, "ValidationError")
              ELSE /\ doc' = [doc EXCEPT ![p] = d]
                   /\ pc' = [pc EXCEPT ![p] = "insert"]
                   /\ UNCHANGED <<awaiting, candidate, counter, resp>>

\* the insert reaches the collection: stored, or rejected by the unique index (E11000)
Insert(p) ==
  /\ UNCHANGED <<bookingVars, normVars>>
  /\ jobs = <<>>
  /\ pc[p] = "insert"
  /\ UNCHANGED <<MONGODB_URI, cleanupEnv, cached, attempts, jobs, requests, overlapped>>
  /\ IF UniqueIndexAdmits(doc[p])
     THEN /\ events' = Append(events, doc[p])
          /\ Respond(p, 201, "")
     ELSE /\ UNCHANGED events
          /\ Respond(p, 409, "Duplicate value error")

\* the module is evaluated again (hot reload): MONGODB_URI is read again, the cache
\* is taken from global.mongoose
Reload ==
  /\ UNCHANGED <<bookingVars, normVars>>
  /\ jobs = <<>>
  /\ MONGODB_URI' \in {"", URI} \ {MONGODB_URI}
  /\ UNCHANGED <<cleanupEnv, cached, attempts, jobs, pc, awaiting, doc, candidate,
                 counter, resp, events, requests, overlapped>>

\* the outcome of a mongoose.connect
SettleAny == \E a \in DOMAIN attempts, o \in DialOutcomes \cup {"fulfilled"} : Settle(a, o)

\* POST requests with every form of Forms
Next ==
  \/ \E p \in Procs : Arrive(p)
  \/ \E p \in Procs, f \in Forms : CallDbConnect(p, f)
  \/ SettleAny
  \/ \E p \in Procs, f \in Forms : ResumeDbConnect(p, f)
  \/ \E p \in Procs : CleanupTestEvent(p)
  \/ \E p \in Procs : CheckSlug(p)
  \/ \E p \in Procs : Insert(p)

Spec == Init /\ [][Next]_vars

ValidForm == MkForm(CloudNextTitle, GoodDate, GoodTime, ListInput, ListInput)

\* POST requests with one valid form, and reloads of the module
NextConnect ==
  \/ \E p \in Procs : Arrive(p)
  \/ \E p \in Procs : CallDbConnect(p, ValidForm)
  \/ SettleAny
  \/ \E p \in Procs : ResumeDbConnect(p, ValidForm)
  \/ \E p \in Procs : CleanupTestEvent(p)
  \/ \E p \in Procs : CheckSlug(p)
  \/ \E p \in Procs : Insert(p)
  \/ Reload

ConnectSpec == Init /\ [][NextConnect]_vars

\* the forms whose titles collide: two bases, one a numbered slug of the other, and the
\* empty base
LoopForms ==
  { ValidForm,
    MkForm(CloudNextOneTitle, GoodDate, GoodTime, ListInput, ListInput),
    MkForm(PunctuationTitle, GoodDate, GoodTime, ListInput, ListInput) }

\* POST requests with the colliding forms
NextLoop ==
  \/ \E p \in Procs : Arrive(p)
  \/ \E p \in Procs, f \in LoopForms : CallDbConnect(p, f)
  \/ SettleAny
  \/ \E p \in Procs, f \in LoopForms : ResumeDbConnect(p, f)
  \/ \E p \in Procs : CleanupTestEvent(p)
  \/ \E p \in Procs : CheckSlug(p)
  \/ \E p \in Procs : Insert(p)

\* the job at the head of the microtask queue runs: a step of CallDbConnect or of
\* ResumeDbConnect, told by what it does to the queue
RunJob ==
  /\ jobs # <<>>
  /\ \/ jobs' = Tail(jobs)
     \/ \E a \in 1..(Len(attempts) + 1) :
          jobs' = Append(Tail(jobs),
                         [kind |-> "reaction", proc |-> Head(jobs).proc, attempt |-> a])

\* the exists query of request p is answered: a step of CheckSlug(p), told by what it
\* does to the counter and to the position of p
LoopIteration(p) ==
  /\ jobs = <<>>
  /\ pc[p] = "exists"
  /\ \/ /\ counter' = [counter EXCEPT ![p] = @ + 1]
        /\ pc' = pc
     \/ /\ pc' = [pc EXCEPT ![p] = "insert"]
        /\ counter' = counter
     \/ /\ pc' = [pc EXCEPT ![p] = "idle"]
        /\ counter' = [counter EXCEPT ![p] = 0]

\* the event loop runs every queued job, and every exists query is answered
LoopFairness ==
  /\ WF_jobs(RunJob)
  /\ \A p \in Procs : WF_<<pc, counter>>(LoopIteration(p))

LoopSpec == Init /\ [][NextLoop]_vars /\ LoopFairness


(***************************************************************************)
(* The normalization steps on their own, over bounded sets of strings.     *)
(***************************************************************************)
TimeAlphabet == {"0", "1", "2", "3", "4", "5", "6", "9", ":"}
TimeInputs == UNION {[1..n -> TimeAlphabet] : n \in 0..MaxTimeLen}

TwoDigits(n) == <<DigitChars[(n \div 10) + 1], DigitChars[(n % 10) + 1]>>
FourDigits(n) == TwoDigits(n \div 100) \o TwoDigits(n % 100)
DateYears == {0, 1, 99, 100, 1600, 1900, 1970, 2000, 2023, 2024, 2100, 9999}
DateInputs ==
  {FourDigits(y) \o <<sep>> \o TwoDigits(m) \o <<sep>> \o TwoDigits(d) :
     y \in DateYears, m \in 0..13, d \in 0..32, sep \in {"-", "/"}}

InitNormalize ==
  /\ InitEvents
  /\ InitBookings
  /\ normIn \in TimeInputs \cup DateInputs
  /\ normOp = "none"
  /\ normOut = NoResult

\* the date step of the hook applied to the string
ApplyNormalizeDate ==
  /\ normOp = "none"
  /\ normOp' = "date"
  /\ normOut' = NormalizeDate(normIn)
  /\ UNCHANGED <<normIn, eventVars, bookingVars>>

\* the date step applied again, to the date it stored
ApplyNormalizeDateAgain ==
  /\ normOp = "date"
  /\ normOut.ok
  /\ normOp' = "date twice"
  /\ normOut' = NormalizeDate(normOut.value)
  /\ UNCHANGED <<normIn, eventVars, bookingVars>>

\* the time step of the hook applied to the string
ApplyNormalizeTime ==
  /\ normOp = "none"
  /\ normOp' = "time"
  /\ normOut' = NormalizeTime(normIn)
  /\ UNCHANGED <<normIn, eventVars, bookingVars>>

NextNormalize == ApplyNormalizeDate \/ ApplyNormalizeDateAgain \/ ApplyNormalizeTime

NormalizeSpec == InitNormalize /\ [][NextNormalize]_vars

(***************************************************************************)
(* The Booking model (booking.model.ts) next to Event creations.           *)
(***************************************************************************)
GoodEmail == <<" ","A","@","b",".","c">>
BadEmail == <<"a","@","b">>
Emails == {GoodEmail, BadEmail}

\* /^[^\s@]+@[^\s@]+\.[^\s@]+$/.test(email)
emailRegexTest(s) ==
  \E i \in DOMAIN s, j \in DOMAIN s :
    /\ 1 < i /\ i + 1 < j /\ j < Len(s)
    /\ s[i] = "@"
    /\ s[j] = "."
    /\ \A k \in DOMAIN s : k # i => ~IsSpace(s[k]) /\ s[k] # "@"

\* a lookup that finds every Event
EventExists_Always(id) == TRUE

\* Event.exists({ _id: this.eventId })
EventExists(id) == \E i \in DOMAIN events : events[i].id = id

ReferentialError == "Referenced event does not exist"
LookupError == "MongoNetworkError"

\* what the await of the lookup can throw: nothing, an Error, a value that is no Error
NoThrow == "no throw"
NonErrorValue == "non-Error value"
LookupThrows == {NoThrow, LookupError, NonErrorValue}

\* a catch block that reports every failure of the lookup as a missing Event
HookCatch_NotFound(thrown) == ReferentialError

\* the catch block of the hook: the error it hands to next
HookCatch(thrown) ==
  IF thrown # NonErrorValue THEN thrown ELSE "Failed to validate event reference"

\* the outcome of a Booking creation; the slot is free again
BookingDone(b, outcome) ==
  /\ bpc' = [bpc EXCEPT ![b] = "idle"]
  /\ bdoc' = [bdoc EXCEPT ![b] = NoBooking]
  /\ bresp' = outcome

\* Booking.create in the first free slot: the setters, then the schema's validators,
\* then the pre('save') hook sends its Event.exists query
BookingCreate(b, eventId, email) ==
  /\ bpc[b] = "idle"
  /\ \A c \in 1..(b - 1) : bpc[c] # "idle"
  /\ bookingCalls < MaxBookings
  /\ bookingCalls' = bookingCalls + 1
  /\ UNCHANGED <<bookings, blookup, eventVars, normVars>>
  /\ LET d == [eventId |-> eventId, email |-> toLowerCase(trim(email))]
     IN  IF ~emailRegexTest(d.email)
         THEN BookingDone(b, "ValidationError")
         ELSE /\ bpc' = [bpc EXCEPT ![b] = "lookup"]
              /\ bdoc' = [bdoc EXCEPT ![b] = d]
              /\ UNCHANGED bresp

\* the pre('save') hook after Event.exists answered or threw
BookingLookup(b, thrown) ==
  /\ bpc[b] = "lookup"
  /\ UNCHANGED <<bookings, bookingCalls, eventVars, normVars>>
  /\ IF thrown # NoThrow
     THEN /\ blookup' = "threw"
          /\ BookingDone(b, HookCatch(thrown))
     ELSE IF ~EventExists(bdoc[b].eventId)
     THEN /\ blookup' = "missing"
          /\ BookingDone(b, ReferentialError)
     ELSE /\ blookup' = "found"
          /\ bpc' = [bpc EXCEPT ![b] = "save"]
          /\ UNCHANGED <<bdoc, bresp>>

\* the Booking is inserted
BookingSave(b) ==
  /\ bpc[b] = "save"
  /\ bookings' = Append(bookings, bdoc[b])
  /\ BookingDone(b, "saved")
  /\ UNCHANGED <<blookup, bookingCalls, eventVars, normVars>>

\* Booking creations next to POST requests with one valid form, the requests served
\* one at a time
NextBooking ==
  \/ Arrive(1)
  \/ CallDbConnect(1, ValidForm)
  \/ SettleAny
  \/ ResumeDbConnect(1, ValidForm)
  \/ CleanupTestEvent(1)
  \/ CheckSlug(1)
  \/ Insert(1)
  \/ \E b \in Bookers, id \in 1..MaxRequests, e \in Emails : BookingCreate(b, id, e)
  \/ \E b \in Bookers, thrown \in LookupThrows : BookingLookup(b, thrown)
  \/ \E b \in Bookers : BookingSave(b)

BookingSpec == Init /\ [][NextBooking]_vars


(***************************************************************************)
(* Properties.                                                             *)
(***************************************************************************)
\* the slug the specification names for the k-th collision on a base
ClaimedSlug(b, k) == IF k = 0 THEN b ELSE b \o <<"-">> \o NumToString(k)

EarlierSlugs(i) == {events[j].slug : j \in 1..(i - 1)}
EarlierSameBase(i) == {j \in 1..(i - 1) : slugify(events[j].title) = slugify(events[i].title)}

\* the slug of events[i] is the first of b, b-1, b-2, ... that no earlier Event has
FirstFreeSlug(i, b) ==
  \E k \in 0..(i - 1) :
    /\ events[i].slug = ClaimedSlug(b, k)
    /\ \A j \in 0..k : (ClaimedSlug(b, j) \in EarlierSlugs(i)) <=> (j < k)

\* no earlier Event of another base holds one of b, b-1, b-2, ...
NoForeignSlug(i, b) ==
  \A j \in 1..(i - 1) :
    (\E k \in 0..i : events[j].slug = ClaimedSlug(b, k)) => slugify(events[j].title) = b

\* C1 as stated: without deletions and with creations one after another, the
\* creations of one non-empty base are stored as base, base-1, base-2, ... in order,
\* whatever else the store holds.
C1_AsStated ==
  (~cleanupEnv /\ ~overlapped) =>
    \A i \in DOMAIN events :
      LET b == slugify(events[i].title)
      IN  b # <<>> => events[i].slug = ClaimedSlug(b, Cardinality(EarlierSameBase(i)))

\* C1 amended: without deletions, every stored Event of a non-empty base has the first
\* of base, base-1, base-2, ... that no Event stored before it has; when no Event of
\* another base holds such a slug, that is base-N for the N-th collision.
C1_FirstFreeSuffix ==
  ~cleanupEnv =>
    \A i \in DOMAIN events :
      LET b == slugify(events[i].title)
      IN  b # <<>> =>
            /\ FirstFreeSlug(i, b)
            /\ NoForeignSlug(i, b) =>
                 events[i].slug = ClaimedSlug(b, Cardinality(EarlierSameBase(i)))

C1_Witness ==
  /\ ~cleanupEnv
  /\ ~overlapped
  /\ Len(events) = 3
  /\ \A i \in 1..3 : events[i].title = CloudNextTitle
                     /\ events[i].slug = ClaimedSlug(CleanupSlug, i - 1)

\* C2: an Event whose title slugifies to the empty string has slug event, or the first
\* free of event-1, event-2, ... when event is taken.
C2_FallbackSuffix ==
  \A i \in DOMAIN events :
    slugify(events[i].title) = <<>> => FirstFreeSlug(i, FallbackSlug)

\* C3: stored slugs are unique and non-empty; an insert whose slug is already stored is
\* rejected with 409 and stores nothing, any other insert stores its document with 201;
\* without deletions a stored slug stays stored, so of two creations that resolved the
\* same slug only one is stored.
C3_UniqueSlugs ==
  /\ [](\A i, j \in DOMAIN events :
          /\ events[i].slug # <<>>
          /\ i # j => events[i].slug # events[j].slug)
  /\ [][\A p \in Procs :
          (pc[p] = "insert" /\ pc'[p] # "insert") =>
             IF \E i \in DOMAIN events : events[i].slug = doc[p].slug
             THEN events' = events /\ resp'.status = 409
             ELSE events' = Append(events, doc[p]) /\ resp'.status = 201]_vars
  /\ [][~cleanupEnv =>
          \A i \in DOMAIN events : \E j \in DOMAIN events' : events'[j].slug = events[i].slug]_vars

C3_Witness ==
  /\ resp.status = 409
  /\ Len(events) = 1
  /\ requests = 2

\* a request runs the part of dbConnect before its await in this step
Calls(p) == pc[p] = "called" /\ pc'[p] # "called"
\* a request runs the part of dbConnect after its await in this step
Resumes(p) == pc[p] = "awaitConnect" /\ pc'[p] # "awaitConnect"
Rejected(a) == attempts[a].state \notin {"pending", "fulfilled"}

\* C4: at most one connection attempt is pending; a dbConnect call that finds an
\* attempt pending starts no other one and awaits the pending one.
C4_SingleDial ==
  /\ [](Cardinality({a \in DOMAIN attempts : attempts[a].state = "pending"}) <= 1)
  /\ [][\A p \in Procs :
          (Calls(p) /\ MONGODB_URI # ""
             /\ \E a \in DOMAIN attempts : attempts[a].state = "pending") =>
            /\ Len(attempts') = Len(attempts)
            /\ pc'[p] = "awaitConnect"
            /\ attempts[awaiting'[p]].state = "pending"]_vars

C4_Witness ==
  \E a \in DOMAIN attempts :
    /\ attempts[a].state = "pending"
    /\ Len(attempts[a].reactions) = 2
    /\ \E b \in DOMAIN attempts : Rejected(b)

\* C5: a request that awaited a failed attempt answers with the connection error;
\* once the failure is delivered the cache has neither handle nor promise; a call
\* never awaits a failed attempt, and with an empty cache it starts a new attempt;
\* a fulfilled attempt caches the handle, which stays cached and lets every later
\* call through without a new attempt.
C5_RetryAfterFailure ==
  /\ [][\A p \in Procs :
          (Resumes(p) /\ Rejected(awaiting[p])) =>
            /\ resp'.status = 500
            /\ resp'.error \notin {"", ConfigError}
            /\ cached'.promise = 0
            /\ cached'.conn = NULL]_vars
  /\ []((jobs = <<>> /\ cached.promise # 0) => ~Rejected(cached.promise))
  /\ []((cached.conn = NULL /\ cached.promise # 0 /\ Rejected(cached.promise)) =>
          \E i \in DOMAIN jobs :
            jobs[i].kind = "reaction" /\ jobs[i].attempt = cached.promise)
  /\ [][\A p \in Procs :
          (Calls(p) /\ pc'[p] = "awaitConnect") =>
            /\ attempts'[awaiting'[p]].state \in {"pending", "fulfilled"}
            /\ (cached.promise = 0 =>
                  /\ Len(attempts') = Len(attempts) + 1
                  /\ awaiting'[p] = Len(attempts')
                  /\ attempts'[awaiting'[p]].state = "pending")]_vars
  /\ [][\A p \in Procs :
          (Resumes(p) /\ attempts[awaiting[p]].state = "fulfilled") =>
            cached'.conn = Mongoose /\ pc'[p] \in {"deleteOne", "exists"}]_vars
  /\ [][cached.conn = Mongoose => cached'.conn = Mongoose]_vars
  /\ [][\A p \in Procs :
          (Calls(p) /\ MONGODB_URI # "" /\ cached.conn = Mongoose) =>
            attempts' = attempts /\ pc'[p] \in {"deleteOne", "exists"}]_vars

C5_Witness ==
  /\ cached.conn = Mongoose
  /\ \E a, b \in DOMAIN attempts :
       a < b /\ Rejected(a) /\ attempts[b].state = "fulfilled"
  /\ resp.status = 500 /\ resp.error \notin {"", ConfigError}
  /\ \E p \in Procs : pc[p] \in {"deleteOne", "exists"}

\* C6: with no MONGODB_URI a dbConnect call fails with the configuration error, starts
\* no connection attempt and leaves the cache as it was, whatever the cache holds.
C6_ConfigErrorFirst ==
  [][\A p \in Procs :
       (Calls(p) /\ MONGODB_URI = "") =>
         /\ resp' = [status |-> 500, error |-> ConfigError]
         /\ pc'[p] = "idle"
         /\ cached' = cached
         /\ attempts' = attempts]_vars

C6_Witness ==
  /\ MONGODB_URI = ""
  /\ cached.conn = Mongoose
  /\ resp.error = ConfigError

C6_WitnessPending ==
  /\ MONGODB_URI = ""
  /\ \E a \in DOMAIN attempts : attempts[a].state = "pending"
  /\ resp.error = ConfigError

PaddedTime == <<"0","9",":","0","5">>

\* the slug loop of request p ends in this step at its first query, on an empty
\* collection, for the title and date of the scenario and the given time
ResolvesScenario(p, time) ==
  /\ pc[p] = "exists"
  /\ pc'[p] # "exists"
  /\ counter[p] = 0
  /\ events = <<>>
  /\ doc[p].title = CloudNextTitle
  /\ doc[p].date = GoodDate
  /\ doc[p].time = time

ScenarioDoc(d) ==
  d.title = CloudNextTitle /\ d.slug = CleanupSlug /\ d.date = GoodDate /\ d.time = PaddedTime

\* C7 as stated: with time "9:5" the creation in an empty store goes on to insert a
\* document with slug cloud-next-2026, date 2026-03-10 and time 09:05.
C7_AsStated ==
  [][\A p \in Procs :
       ResolvesScenario(p, ShortTime) => pc'[p] = "insert" /\ ScenarioDoc(doc'[p])]_vars

\* C7 amended: with time "9:05" the creation in an empty store inserts a document with
\* slug cloud-next-2026, date 2026-03-10 and time 09:05 and answers 201; with time
\* "9:5" it is rejected with the time format error and nothing is stored.
C7_Scenario ==
  /\ [][\A p \in Procs :
          ResolvesScenario(p, GoodTime) => pc'[p] = "insert" /\ ScenarioDoc(doc'[p])]_vars
  /\ [][\A p \in Procs :
          (pc[p] = "insert" /\ pc'[p] # "insert" /\ events = <<>> /\ ScenarioDoc(doc[p])) =>
            events' = <<doc[p]>> /\ resp'.status = 201]_vars
  /\ [][\A p \in Procs :
          ResolvesScenario(p, ShortTime) =>
            /\ pc'[p] = "idle"
            /\ resp' = [status |-> 500, error |-> "Time must be in HH:MM format"]
            /\ events' = events]_vars

C7_Witness ==
  /\ Len(events) = 1
  /\ ScenarioDoc(events[1])
  /\ requests = 1
  /\ resp.status = 201

\* the string is digits, ':' and two digits, the hour digits being nh long
TimeShaped(s, nh) ==
  /\ Len(s) = nh + 3
  /\ s[nh + 1] = ":"
  /\ \A i \in (1..Len(s)) \ {nh + 1} : IsDigit(s[i])

HourOf(s) == parseInt(SubSeq(s, 1, FirstColon(s) - 1))
MinuteOf(s) == parseInt(SubSeq(s, FirstColon(s) + 1, Len(s)))

\* C8: H:MM and HH:MM with hour 0..23 and minute 00..59 are accepted and stored with
\* the hour padded to two digits and the minutes unchanged; every stored time is
\* HH:MM; an hour of 24 or more is rejected.
C8_TimePadded ==
  normOp = "time" =>
    /\ \A nh \in {1, 2} :
         (TimeShaped(normIn, nh) /\ HourOf(normIn) <= 23 /\ MinuteOf(normIn) <= 59) =>
           /\ normOut.ok
           /\ normOut.value = TwoDigits(HourOf(normIn)) \o SubSeq(normIn, nh + 1, nh + 3)
    /\ normOut.ok => TimeShaped(normOut.value, 2)
                     /\ HourOf(normOut.value) <= 23 /\ MinuteOf(normOut.value) <= 59
    /\ (/\ FirstColon(normIn) > 1
        /\ \A i \in 1..(FirstColon(normIn) - 1) : IsDigit(normIn[i])
        /\ HourOf(normIn) >= 24) => ~normOut.ok

C8_Witness ==
  /\ normOp = "time"
  /\ normIn = GoodTime
  /\ normOut.ok
  /\ normOut.value = PaddedTime

\* the proleptic Gregorian calendar
IsLeapYear(y) == (y % 4 = 0 /\ y % 100 # 0) \/ y % 400 = 0
DaysInMonth(y, m) ==
  IF m = 2 THEN (IF IsLeapYear(y) THEN 29 ELSE 28)
  ELSE IF m \in {4, 6, 9, 11} THEN 30 ELSE 31

\* YYYY-MM-DD with month 01..12 and day 01..31
DateShaped(s) ==
  /\ Len(s) = 10
  /\ s[5] = "-" /\ s[8] = "-"
  /\ \A i \in (1..10) \ {5, 8} : IsDigit(s[i])
  /\ parseInt(SubSeq(s, 6, 7)) \in 1..12
  /\ parseInt(SubSeq(s, 9, 10)) \in 1..31

RealDate(s) ==
  parseInt(SubSeq(s, 9, 10)) <= DaysInMonth(parseInt(SubSeq(s, 1, 4)), parseInt(SubSeq(s, 6, 7)))

\* C9: a string of the shape YYYY-MM-DD is rejected exactly when the day does not
\* exist in that month and year; a real date is stored unchanged, also when it is
\* normalized a second time.
C9_RealDatesOnly ==
  (normOp \in {"date", "date twice"} /\ DateShaped(normIn)) =>
    /\ normOut.ok <=> RealDate(normIn)
    /\ normOut.ok => normOut.value = normIn
    /\ ~normOut.ok => normOut.error = "Invalid date format - expected YYYY-MM-DD"

\* C10: when the lookup of the pre('save') hook answers that the Event does not exist,
\* the creation ends with 'Referenced event does not exist' and no Booking is stored;
\* a Booking is stored only by the save of a creation whose lookup found its Event,
\* and a rejected creation stores nothing.
C10_DanglingReferenceRejected ==
  /\ [][\A b \in Bookers :
          (bpc[b] = "lookup" /\ bpc'[b] # "lookup") =>
            /\ (~\E i \in DOMAIN events : events[i].id = bdoc[b].eventId) =>
                 /\ bpc'[b] = "idle"
                 /\ bresp' \in {ReferentialError} \cup
                             {HookCatch(t) : t \in LookupThrows \ {NoThrow}}
                 /\ bookings' = bookings
            /\ (bpc'[b] = "idle" /\ bresp' = ReferentialError) =>
                 ~\E i \in DOMAIN events : events[i].id = bdoc[b].eventId
            /\ bpc'[b] = "save" =>
                 /\ \E i \in DOMAIN events : events[i].id = bdoc[b].eventId
                 /\ bdoc'[b] = bdoc[b]
                 /\ bookings' = bookings]_vars
  /\ [][bookings' # bookings =>
          \E b \in Bookers :
            /\ bpc[b] = "save"
            /\ bookings' = Append(bookings, bdoc[b])
            /\ bresp' = "saved"]_vars
  /\ [](\A b \in Bookers : bpc[b] = "save" => bdoc[b].eventId \in 1..requests)
  /\ [](\A i \in DOMAIN bookings : bookings[i].eventId \in 1..requests)

C10_Witness ==
  /\ bresp = ReferentialError
  /\ Len(events) > 0
  /\ Len(bookings) > 0
  /\ \A i \in DOMAIN bookings : ~\E j \in DOMAIN events : events[j].id = bookings[i].eventId


\* C11: a failed creation answers 409, 400 or 500, and a creation that the hook rejects
\* for its date or its time answers 400, as one that the validators reject for an empty
\* agenda or tags list does.
C11_FailureClasses ==
  /\ [](resp.status \in {0, 201, 400, 409, 500})
  /\ [][\A p \in Procs :
          (pc[p] = "exists" /\ pc'[p] = "idle") => resp'.status = 400]_vars


\* the first request has ended with a rejection of the hook or of the validators
FirstRequestRejected ==
  /\ requests = 1
  /\ \A p \in Procs : pc[p] = "idle"
  /\ \/ resp.status = 400
     \/ resp.error \in {NormalizeDate(<<>>).error, NormalizeTime(<<>>).error}

\* C12 as stated, for the request that starts in the initial state: once it is rejected,
\* the collection and the connection cache are what they were when it started.
C12_AsStated ==
  FirstRequestRejected => (events = <<>> /\ cached = [conn |-> NULL, promise |-> 0])

\* a stored Event went through the whole hook and the validators
FullyNormalized(e) ==
  /\ e.slug # <<>>
  /\ DateShaped(e.date) /\ RealDate(e.date)
  /\ TimeShaped(e.time, 2)
  /\ e.title # <<>> /\ Len(e.agenda) > 0 /\ Len(e.tags) > 0

\* C12 amended: the step that rejects a creation (in the hook, in the validators or at
\* the unique index) changes neither the collection nor the connection cache; the
\* collection changes only by the insert of a fully normalized Event that is answered
\* with 201 and by the test clean-up's deleteOne; the cache changes only inside
\* dbConnect, before the form is read.
C12_RejectionWritesNothing ==
  /\ [][\A p \in Procs :
          (pc[p] \in {"exists", "insert"} /\ pc'[p] = "idle" /\ resp'.status # 201) =>
            (events' = events /\ cached' = cached)]_vars
  /\ [][events' # events =>
          \E p \in Procs :
            \/ /\ pc[p] = "insert" /\ pc'[p] = "idle"
               /\ resp'.status = 201
               /\ events' = Append(events, doc[p])
            \/ /\ cleanupEnv
               /\ pc[p] = "deleteOne" /\ pc'[p] = "exists"
               /\ events' = DeleteOne(events, CleanupSlug)]_vars
  /\ [][cached' # cached =>
          \E p \in Procs : pc[p] \in {"called", "awaitConnect"} /\ pc'[p] # pc[p]]_vars
  /\ [](\A i \in DOMAIN events : FullyNormalized(events[i]))

C12_Witness ==
  /\ resp.status \in {400, 409}
  /\ \A p \in Procs : pc[p] = "idle"
  /\ Len(events) = 1
  /\ cached.conn = Mongoose
  /\ requests = 2


\* C13: when the Event.exists query of the hook throws, the creation ends with an error
\* that is not 'Referenced event does not exist' and no Booking is stored; the hook goes
\* on to the save only after a query that found the Event, and reports a missing Event
\* only after a query that answered and found none.
C13_LookupFailureDistinct ==
  [][\A b \in Bookers :
       (bpc[b] = "lookup" /\ bpc'[b] # "lookup") =>
         /\ blookup' = "threw" =>
              /\ bpc'[b] = "idle"
              /\ bresp' \in {LookupError, "Failed to validate event reference"}
              /\ bresp' # ReferentialError
              /\ bookings' = bookings
         /\ bpc'[b] = "save" => blookup' = "found"
         /\ (bpc'[b] = "idle" /\ bresp' = ReferentialError) => blookup' = "missing"]_vars

C13_Witness ==
  /\ blookup = "threw"
  /\ bresp = LookupError
  /\ \E i \in DOMAIN events : events[i].id = 1
  /\ bookingCalls > 0
  /\ bookings = <<>>


\* the steps that LoopFairness names are the steps of the handler: a LoopIteration(p)
\* step is a CheckSlug(p) step, a RunJob step is a step of dbConnect
FairStepsAreHandlerSteps ==
  /\ [][\A p \in Procs : LoopIteration(p) <=> CheckSlug(p)]_vars
  /\ [][RunJob <=> \E p \in Procs, f \in LoopForms :
                     CallDbConnect(p, f) \/ ResumeDbConnect(p, f)]_vars

\* C14: a creation that is in its slug loop leaves the loop, whatever the other
\* creations do; its loop has found at most one taken candidate for every other
\* creation that started before it ended.
C14_LoopTerminates ==
  /\ \A p \in Procs : (pc[p] = "exists") ~> (pc[p] \in {"insert", "idle"})
  /\ [](\A p \in Procs : pc[p] = "exists" => counter[p] < requests)

C14_Witness ==
  /\ overlapped
  /\ \E p, q \in Procs :
       /\ p # q
       /\ pc[p] = "insert" /\ counter[p] = 1
       /\ pc[q] = "exists" /\ counter[q] = 1

=============================================================================
